---- MODULE Spec2Model ----
(***************************************************************************)
(* Model of the voxel map (src/src/voxel_hash_map.rs), the point type      *)
(* (src/src/point3d.rs) and scan deskewing (src/src/deskew.rs) of          *)
(* simple-icp.                                                             *)
(*                                                                         *)
(* Numbers.  Coordinates are integers on a grid (one grid unit is the      *)
(* length unit of the model), times are integer seconds.  On this grid the *)
(* f32 <-> f64 casts of the code are exact, so they do not appear.  The    *)
(* code compares Euclidean norms; the model compares their squares, which  *)
(* order the same way:  norm(a-b) < sqrt(v*v/n)  <=>  |a-b|^2 * n < v*v.   *)
(* A distance returned by the code is modelled by its square.              *)
(* Rotations are the quarter turns about the z axis (0..3), which map the  *)
(* grid onto itself.  A point's intensity is carried along unchanged by    *)
(* every operation and read by none, so points are records                 *)
(* [x, y, z, timestamp].                                                   *)
(***************************************************************************)
EXTENDS Integers, Sequences, FiniteSets, TLC

VARIABLES map, last_batch_points, max_point_age_seconds, now,
          op, current_origin, query, result,
          points, poses, dpc

mapVars == <<map, last_batch_points, max_point_age_seconds, now,
             op, current_origin, query, result>>
deskewVars == <<points, poses, dpc>>
vars == <<map, last_batch_points, max_point_age_seconds, now,
          op, current_origin, query, result, points, poses, dpc>>

(* Option<T>: None is the empty sequence, Some(v) the sequence of v alone.
   The outcome of a call is its return value or a panic. *)
None == <<>>
Some(v) == <<v>>
Returned(v) == [panicked |-> FALSE, value |-> v]
Panic == [panicked |-> TRUE, value |-> None]

----------------------------------------------------------------------------
(* Bounds of the model *)
MaxBatch == 2          \* longest batch handed to update_with_pose
MaxTime == 2           \* the wall clock runs from 0 to MaxTime
MaxQueryBatch == 1     \* longest batch while the accessors are exercised
MaxScan == 2           \* longest scan handed to deskew_scan
MaxPoses == 2          \* longest pose history
MaxInstant == 2        \* capture and sample instants run from 0 to MaxInstant

(* Configuration of the map under test (VoxelHashMap's public fields), in grid units *)
voxel_size == 2
max_distance == 3
max_points_per_voxel == 2
MaxPointAge == 1       \* the T of max_point_age_seconds = Some(T)

(* Configuration of deskewing (Config): the distance in grid units, the angle in
   degrees (PI / 18 rad) *)
max_distance_between_poses == 1
max_angle_between_poses == 10

----------------------------------------------------------------------------
(* Points and vectors *)

Vec(x, y, z) == [x |-> x, y |-> y, z |-> z]
Pt(x, y, z, t) == [x |-> x, y |-> y, z |-> z, timestamp |-> t]

to_na_vec_f64(p) == [x |-> p.x, y |-> p.y, z |-> p.z]

norm_squared(a, b) ==
    (a.x - b.x) * (a.x - b.x) + (a.y - b.y) * (a.y - b.y) + (a.z - b.z) * (a.z - b.z)

age_seconds(p, clock) == clock - p.timestamp

(* Positions of the raw input points: three points of the voxel at the origin
   that are pairwise exactly at the map resolution, a fourth that is closer than
   the resolution to two of them, and one point of the next voxel along x, out
   of range of the origin. *)
Positions == { Vec(0, 0, 0), Vec(1, 1, 0), Vec(1, 0, 1), Vec(0, 0, 1), Vec(3, 1, 0) }

SeqsUpTo(S, n) == UNION { [1..k -> S] : k \in 0..n }

(* The points of a batch are stamped with the time of the call (Point3d::new
   reads the clock). *)
InputPoints(clock) == { Pt(v.x, v.y, v.z, clock) : v \in Positions }

(* Isometries: a quarter-turn count about z and a translation *)
Iso(r, t) == [rotation |-> r, translation |-> t]

RotateQuarter(v) == [x |-> 0 - v.y, y |-> v.x, z |-> v.z]

RECURSIVE Rotate(_, _)
Rotate(r, v) == IF r = 0 THEN v ELSE Rotate(r - 1, RotateQuarter(v))

VecAdd(a, b) == [x |-> a.x + b.x, y |-> a.y + b.y, z |-> a.z + b.z]

VecNeg(a) == [x |-> 0 - a.x, y |-> 0 - a.y, z |-> 0 - a.z]

IsoApply(iso, v) == VecAdd(Rotate(iso.rotation, v), iso.translation)

(* a * b: first b, then a *)
IsoCompose(a, b) ==
    Iso((a.rotation + b.rotation) % 4, VecAdd(Rotate(a.rotation, b.translation), a.translation))

IsoInverse(a) ==
    LET back == (4 - a.rotation) % 4
    IN  Iso(back, VecNeg(Rotate(back, a.translation)))

(* The sensor poses: the identity, and a half turn about the point (3/2, 1/2),
   which carries the input positions to (3,1,0), (2,0,0), (2,1,1), (3,1,1),
   (0,0,0). *)
MapPoses == { Iso(0, Vec(0, 0, 0)), Iso(2, Vec(3, 1, 0)) }

----------------------------------------------------------------------------
(* Voxel keys: floor division of each coordinate by the voxel size *)

na_vec_to_voxel(v, size) == <<v.x \div size, v.y \div size, v.z \div size>>

point_to_voxel(p, size) == na_vec_to_voxel(to_na_vec_f64(p), size)

----------------------------------------------------------------------------
(* VoxelHashMap *)

EmptyMap == [k \in {} |-> <<>>]

Range(s) == { s[i] : i \in 1..Len(s) }

is_empty(m) == DOMAIN m = {}

RECURSIVE SumLen(_, _)
SumLen(m, keys) ==
    IF keys = {} THEN 0
    ELSE LET k == CHOOSE k \in keys : TRUE
         IN  Len(m[k]) + SumLen(m, keys \ {k})

map_len(m) == SumLen(m, DOMAIN m)

(* the comparison of the resolution test reversed *)
CloserThanResolutionReversed(a, b) ==
    norm_squared(to_na_vec_f64(a), to_na_vec_f64(b)) * max_points_per_voxel
        > voxel_size * voxel_size

CloserThanResolution(a, b) ==
    norm_squared(to_na_vec_f64(a), to_na_vec_f64(b)) * max_points_per_voxel
        < voxel_size * voxel_size

(* the capacity test off by one *)
CellFullOffByOne(cell) == Len(cell) > max_points_per_voxel

CellFull(cell) == Len(cell) >= max_points_per_voxel

RECURSIVE add_points_from(_, _, _, _)
add_points_from(m, last_batch, pts, i) ==
    IF i > Len(pts) THEN [map |-> m, last_batch_points |-> last_batch]
    ELSE LET pt == pts[i]
             voxel == na_vec_to_voxel(to_na_vec_f64(pt), voxel_size)
         IN  IF voxel \in DOMAIN m
             THEN IF \/ CellFull(m[voxel])
                     \/ \E j \in 1..Len(m[voxel]) : CloserThanResolution(m[voxel][j], pt)
                  THEN add_points_from(m, last_batch, pts, i + 1)
                  ELSE add_points_from([m EXCEPT ![voxel] = Append(@, pt)],
                                       Append(last_batch, pt), pts, i + 1)
             ELSE add_points_from((voxel :> <<pt>>) @@ m,
                                  Append(last_batch, pt), pts, i + 1)

add_points(m, pts) == add_points_from(m, <<>>, pts, 1)

TooFar(p, origin) ==
    norm_squared(to_na_vec_f64(p), origin) >= max_distance * max_distance

remove_points_too_far(m, origin) ==
    LET keys_too_far == { k \in DOMAIN m : TooFar(m[k][1], origin) }
    IN  [k \in DOMAIN m \ keys_too_far |-> m[k]]

(* the age limit off by one second *)
NotAgedLate(p, clock, max_age) == age_seconds(p, clock) <= max_age + 1

NotAged(p, clock, max_age) == age_seconds(p, clock) <= max_age

(* the emptied voxels left in the map *)
remove_aged_points_keep_empty(m, clock, max_age) ==
    [k \in DOMAIN m |-> SelectSeq(m[k], LAMBDA p : NotAged(p, clock, max_age))]

remove_aged_points(m, clock, max_age) ==
    LET retained == [k \in DOMAIN m |->
                        SelectSeq(m[k], LAMBDA p : NotAged(p, clock, max_age))]
        empty_voxels == { k \in DOMAIN m : retained[k] = <<>> }
    IN  [k \in DOMAIN m \ empty_voxels |-> retained[k]]

(* distance eviction before the insertion *)
update_evict_first(m, pts, origin, clock, max_age) ==
    LET near == remove_points_too_far(m, origin)
        added == add_points(near, pts)
        kept == IF max_age # None
                THEN remove_aged_points(added.map, clock, max_age[1]) ELSE added.map
    IN  [map |-> kept, last_batch_points |-> added.last_batch_points]

update(m, pts, origin, clock, max_age) ==
    LET added == add_points(m, pts)
        near == remove_points_too_far(added.map, origin)
        kept == IF max_age # None THEN remove_aged_points(near, clock, max_age[1]) ELSE near
    IN  [map |-> kept, last_batch_points |-> added.last_batch_points]

TransformPoint(iso, pt) ==
    LET v == IsoApply(iso, to_na_vec_f64(pt))
    IN  Pt(v.x, v.y, v.z, pt.timestamp)

update_with_pose(m, pts, t_origin_current, clock, max_age) ==
    LET transformed_points == [i \in 1..Len(pts) |-> TransformPoint(t_origin_current, pts[i])]
    IN  update(m, transformed_points, t_origin_current.translation, clock, max_age)

(* get_adjacent_voxels: the half-open ranges  c - n .. c + n + 1  of the three
   nested loops, in loop order *)
RangeSeq(lo, hi) == [i \in 1..(hi - lo) |-> lo + i - 1]

(* the upper end of the range short by one *)
NeighborAxisShort(c, n) == RangeSeq(c - n, c + n)

NeighborAxis(c, n) == RangeSeq(c - n, c + n + 1)

get_adjacent_voxels(voxel, adjacent_voxels) ==
    LET xs == NeighborAxis(voxel[1], adjacent_voxels)
        ys == NeighborAxis(voxel[2], adjacent_voxels)
        zs == NeighborAxis(voxel[3], adjacent_voxels)
        ny == Len(ys)
        nz == Len(zs)
    IN  [i \in 1..(Len(xs) * ny * nz) |->
            << xs[((i - 1) \div (ny * nz)) + 1],
               ys[(((i - 1) \div nz) % ny) + 1],
               zs[((i - 1) % nz) + 1] >>]

(* The reduce over one cell: the accumulator is kept only when strictly closer *)
CloserOf(acc, pt, point_na) ==
    IF norm_squared(to_na_vec_f64(acc), point_na) < norm_squared(to_na_vec_f64(pt), point_na)
    THEN acc ELSE pt

RECURSIVE ReduceCell(_, _, _, _)
ReduceCell(cell, i, acc, point_na) ==
    IF i > Len(cell) THEN acc
    ELSE ReduceCell(cell, i + 1, CloserOf(acc, cell[i], point_na), point_na)

(* filter_map over the query voxels: one (neighbor, distance) per occupied
   voxel; reduce(..).unwrap() of a cell without points panics *)
RECURSIVE CellNeighbors(_, _, _, _)
CellNeighbors(m, query_voxels, i, point_na) ==
    IF i > Len(query_voxels) THEN <<>>
    ELSE LET rest == CellNeighbors(m, query_voxels, i + 1, point_na)
             qv == query_voxels[i]
         IN  IF qv \in DOMAIN m
             THEN IF m[qv] = <<>>
                  THEN <<[panicked |-> TRUE, point |-> point_na, distance2 |-> 0]>> \o rest
                  ELSE LET neighbor == ReduceCell(m[qv], 2, m[qv][1], point_na)
                       IN  <<[panicked |-> FALSE, point |-> neighbor,
                              distance2 |-> norm_squared(to_na_vec_f64(neighbor), point_na)]>>
                           \o rest
             ELSE rest

RECURSIVE ReduceNeighbors(_, _, _)
ReduceNeighbors(neighbors, i, acc) ==
    IF i > Len(neighbors) THEN acc
    ELSE ReduceNeighbors(neighbors, i + 1,
                         IF acc.distance2 < neighbors[i].distance2 THEN acc ELSE neighbors[i])

get_closest_neighbor(m, point) ==
    LET voxel == point_to_voxel(point, voxel_size)
        query_voxels == get_adjacent_voxels(voxel, 1)
        point_na == to_na_vec_f64(point)
        neighbors == CellNeighbors(m, query_voxels, 1, point_na)
        closest == ReduceNeighbors(neighbors, 2, neighbors[1])
    IN  IF \E i \in 1..Len(neighbors) : neighbors[i].panicked THEN Panic
        ELSE IF neighbors = <<>> THEN Returned(None)
        ELSE Returned(Some([point |-> closest.point, distance2 |-> closest.distance2]))

(* All stored points, as a multiset (the order is the hash map's iteration
   order); reduce(..) of no cells is None and unwrap() panics *)
StoredPoints(m) == UNION { Range(m[k]) : k \in DOMAIN m }

get_na_points(m) ==
    IF DOMAIN m = {} THEN Panic
    ELSE Returned([v \in { to_na_vec_f64(p) : p \in StoredPoints(m) } |->
            Cardinality({ ki \in { <<k, i>> : k \in DOMAIN m, i \in 1..max_points_per_voxel } :
                            /\ ki[2] <= Len(m[ki[1]])
                            /\ to_na_vec_f64(m[ki[1]][ki[2]]) = v })])

----------------------------------------------------------------------------
(* The map under a caller that updates it, queries it and lets time pass *)

(* Query points: one in the voxel at the origin, one in the voxel before it
   along x, one three voxels further along x *)
QueryPoints == { Pt(1, 0, 1, 0), Pt(0 - 2, 1, 0, 0), Pt(6, 0, 0, 0) }

Init ==
    /\ map = EmptyMap
    /\ last_batch_points = <<>>
    /\ max_point_age_seconds \in {None, Some(MaxPointAge)}
    /\ now = 0
    /\ op = "new"
    /\ current_origin = None
    /\ query = None
    /\ result = Returned(None)
    /\ points = <<>>
    /\ poses = <<>>
    /\ dpc = "idle"

(* update_with_pose on a batch of at most n points; the clock it reads has
   advanced by dt since the last call.  A panic ends the program. *)
UpdateUpTo(n) ==
    \E dt \in 0..1 :
      /\ ~result.panicked
      /\ now + dt <= MaxTime
      /\ now' = now + dt
      /\ \E pts \in SeqsUpTo(InputPoints(now'), n), t_origin_current \in MapPoses :
            LET u == update_with_pose(map, pts, t_origin_current, now', max_point_age_seconds)
            IN  /\ map' = u.map
                /\ last_batch_points' = u.last_batch_points
                /\ current_origin' = Some(t_origin_current.translation)
      /\ op' = "update_with_pose"
      /\ query' = None
      /\ result' = Returned(None)
      /\ UNCHANGED max_point_age_seconds
      /\ UNCHANGED deskewVars

UpdateWithPose == UpdateUpTo(MaxBatch)

UpdateWithPoseShort == UpdateUpTo(MaxQueryBatch)

GetClosestNeighbor ==
    /\ ~result.panicked
    /\ \E q \in QueryPoints :
          /\ query' = Some(q)
          /\ result' = get_closest_neighbor(map, q)
    /\ op' = "get_closest_neighbor"
    /\ UNCHANGED <<map, last_batch_points, max_point_age_seconds, now, current_origin>>
    /\ UNCHANGED deskewVars

GetNaPoints ==
    /\ ~result.panicked
    /\ result' = get_na_points(map)
    /\ query' = None
    /\ op' = "get_na_points"
    /\ UNCHANGED <<map, last_batch_points, max_point_age_seconds, now, current_origin>>
    /\ UNCHANGED deskewVars

Next == UpdateWithPose

Spec == Init /\ [][Next]_vars

NextQuery == UpdateWithPoseShort \/ GetClosestNeighbor \/ GetNaPoints

SpecQuery == Init /\ [][NextQuery]_vars

----------------------------------------------------------------------------
(* Deskewing (src/src/deskew.rs).  A scan point is [x, y, z, global_timestamp];
   a pose sample is [time, pose]. *)

ScanPt(x, y, z, t) == [x |-> x, y |-> y, z |-> z, global_timestamp |-> t]

Sample(t, pose) == [time |-> t, pose |-> pose]

(* Angle between two quarter-turn rotations, in degrees *)
angle_to(r1, r2) ==
    LET d == (r1 - r2 + 4) % 4
    IN  90 * (IF d <= 4 - d THEN d ELSE 4 - d)

(* equal sample times let through *)
TimeBefore(t2, t1) == t2 < t1

TimeNotAfter(t2, t1) == t2 <= t1

validate_poses(ps, max_dist, max_angle) ==
    \A i \in 1..(Len(ps) - 1) :
        LET pose1 == ps[i]
            pose2 == ps[i + 1]
        IN  /\ ~TimeNotAfter(pose2.time, pose1.time)
            /\ ~(angle_to(pose1.pose.rotation, pose2.pose.rotation) > max_angle)
            /\ ~(norm_squared(pose1.pose.translation, pose2.pose.translation)
                    > max_dist * max_dist)

(* partition_point of a history sorted by time: how many samples are not later
   than the time *)
partition_point(ps, time) == Cardinality({ i \in 1..Len(ps) : ps[i].time <= time })

(* lerp of the translation, rounded down to the grid *)
Lerp(a, b, num, den) ==
    [x |-> a.x + ((b.x - a.x) * num) \div den,
     y |-> a.y + ((b.y - a.y) * num) \div den,
     z |-> a.z + ((b.z - a.z) * num) \div den]

(* slerp between quarter turns: equal rotations interpolate to themselves; the
   nearer of two different ones stands for the rotation in between *)
Slerp(r1, r2, num, den) == IF r1 = r2 THEN r1 ELSE IF 2 * num < den THEN r1 ELSE r2

interpolate_pose_at_time(ps, time) ==
    IF ps # <<>> /\ time <= ps[1].time THEN Some(ps[1].pose)
    ELSE IF ps # <<>> /\ time >= ps[Len(ps)].time THEN Some(ps[Len(ps)].pose)
    ELSE LET idx == partition_point(ps, time)
         IN  IF idx = 0 \/ idx >= Len(ps) THEN None
             ELSE LET prev == ps[idx]
                      next == ps[idx + 1]
                      total_duration == next.time - prev.time
                      current_duration == time - prev.time
                  IN  IF total_duration <= 0 THEN Some(prev.pose)
                      ELSE Some(Iso(Slerp(prev.pose.rotation, next.pose.rotation,
                                          current_duration, total_duration),
                                    Lerp(prev.pose.translation, next.pose.translation,
                                         current_duration, total_duration)))

RECURSIVE MaxTimestamp(_, _)
MaxTimestamp(pts, i) ==
    IF i = Len(pts) THEN pts[i].global_timestamp
    ELSE LET rest == MaxTimestamp(pts, i + 1)
         IN  IF pts[i].global_timestamp > rest THEN pts[i].global_timestamp ELSE rest

(* the scan-end pose not inverted *)
CorrectionTransformNotInverted(pose_at_scan_end, pose_at_point_time) ==
    IsoCompose(pose_at_scan_end, pose_at_point_time)

CorrectionTransform(pose_at_scan_end, pose_at_point_time) ==
    IsoCompose(IsoInverse(pose_at_scan_end), pose_at_point_time)

CorrectPoint(ps, pose_at_scan_end, point) ==
    LET pose_at_point_time == interpolate_pose_at_time(ps, point.global_timestamp)
    IN  IF pose_at_point_time = None THEN point
        ELSE LET corrected_point ==
                     IsoApply(CorrectionTransform(pose_at_scan_end, pose_at_point_time[1]),
                              to_na_vec_f64(point))
             IN  ScanPt(corrected_point.x, corrected_point.y, corrected_point.z,
                        point.global_timestamp)

deskew_scan(pts, ps, max_angle, max_dist) ==
    IF pts = <<>> \/ ps = <<>> \/ ~validate_poses(ps, max_dist, max_angle)
    THEN pts
    ELSE LET scan_end_time == MaxTimestamp(pts, 1)
             pose_at_scan_end == interpolate_pose_at_time(ps, scan_end_time)
         IN  IF pose_at_scan_end = None THEN pts
             ELSE [i \in 1..Len(pts) |-> CorrectPoint(ps, pose_at_scan_end[1], pts[i])]

ScanPoints == { ScanPt(1, 0, 0, t) : t \in 0..MaxInstant }

DeskewPoses ==
    { Iso(r, Vec(tx, 0, 0)) : r \in {0, 1}, tx \in {0, 1, 3} }

Samples == { Sample(t, pose) : t \in 0..MaxInstant, pose \in DeskewPoses }

InitDeskew ==
    /\ map = EmptyMap
    /\ last_batch_points = <<>>
    /\ max_point_age_seconds = None
    /\ now = 0
    /\ op = "new"
    /\ current_origin = None
    /\ query = None
    /\ result = Returned(None)
    /\ points \in SeqsUpTo(ScanPoints, MaxScan)
    /\ poses \in SeqsUpTo(Samples, MaxPoses)
    /\ dpc = "idle"

DeskewScan ==
    /\ dpc = "idle"
    /\ points' = deskew_scan(points, poses, max_angle_between_poses, max_distance_between_poses)
    /\ dpc' = "done"
    /\ UNCHANGED poses
    /\ UNCHANGED mapVars

NextDeskew == DeskewScan

SpecDeskew == InitDeskew /\ [][NextDeskew]_vars

----------------------------------------------------------------------------
(* Properties *)

AfterUpdate == op = "update_with_pose"

AgeLimitSet == max_point_age_seconds # None

Origin == current_origin[1]

OutOfRange(p) ==
    LET dx == p.x - Origin.x
        dy == p.y - Origin.y
        dz == p.z - Origin.z
    IN  dx * dx + dy * dy + dz * dz >= max_distance * max_distance

Dist2(p, q) ==
    (p.x - q.x) * (p.x - q.x) + (p.y - q.y) * (p.y - q.y) + (p.z - q.z) * (p.z - q.z)

(* C1: every cell of the map holds at most max_points_per_voxel points. *)
C1_Capacity == \A k \in DOMAIN map : Len(map[k]) <= max_points_per_voxel

(* a full cell after an update that accepted nothing *)
C1_Witness ==
    /\ AfterUpdate
    /\ last_batch_points = <<>>
    /\ \E k \in DOMAIN map : Len(map[k]) = max_points_per_voxel

(* C2: after every update, the first point of every cell of the map is at
   squared distance strictly less than max_distance^2 from the pose's
   translation, whether or not age eviction is enabled. *)
C2_RepresentativeInRange ==
    AfterUpdate => \A k \in DOMAIN map : ~OutOfRange(map[k][1])

(* C3: any two points stored in the same cell are at distance at least
   sqrt(voxel_size^2 / max_points_per_voxel); so no cell holds the same
   position twice. *)
C3_MinResolution ==
    \A k \in DOMAIN map : \A i, j \in 1..Len(map[k]) :
        i # j => Dist2(map[k][i], map[k][j]) * max_points_per_voxel >= voxel_size * voxel_size

(* two points stored together exactly at the minimum resolution *)
C3_Witness ==
    /\ AfterUpdate
    /\ \E k \in DOMAIN map :
          /\ Len(map[k]) = 2
          /\ Dist2(map[k][1], map[k][2]) * max_points_per_voxel = voxel_size * voxel_size

(* C4: with an age limit T, after every update no stored point is older than T
   and no cell is empty; without an age limit, an update removes no point of a
   cell whose first point is in range. *)
C4_NoAgedPointAfterUpdate ==
    (AfterUpdate /\ AgeLimitSet) =>
        /\ \A p \in StoredPoints(map) : now - p.timestamp <= max_point_age_seconds[1]
        /\ \A k \in DOMAIN map : map[k] # <<>>

C4_NoAgeRemovalWithoutLimit ==
    (max_point_age_seconds = None /\ op' = "update_with_pose") =>
        \A k \in DOMAIN map :
            LET o == current_origin'[1]
            IN  Dist2(map[k][1], o) < max_distance * max_distance =>
                    /\ k \in DOMAIN map'
                    /\ Len(map'[k]) >= Len(map[k])
                    /\ SubSeq(map'[k], 1, Len(map[k])) = map[k]

C4_AgeEviction == []C4_NoAgedPointAfterUpdate /\ [][C4_NoAgeRemovalWithoutLimit]_vars

(* age eviction has removed the first point of a cell that stays: the cell's
   first point is now one that is out of range, and a point as old as the
   limit allows is still stored *)
C4_Witness ==
    /\ AfterUpdate
    /\ AgeLimitSet
    /\ \E k \in DOMAIN map : OutOfRange(map[k][1])
    /\ \E p \in StoredPoints(map) : now - p.timestamp = max_point_age_seconds[1]

(* the same without an age limit: points older than MaxPointAge are stored after an update *)
C4_WitnessNoLimit ==
    /\ AfterUpdate
    /\ ~AgeLimitSet
    /\ \E p \in StoredPoints(map) : now - p.timestamp > MaxPointAge

(* C5: get_closest_neighbor returns a stored point of the 3x3x3 block of cells
   around the query's voxel together with its distance, no stored point of the
   block is strictly closer, it returns nothing exactly when no cell of the
   block is in the map, and it leaves the map as it is. *)
Block(q) ==
    LET v == <<q.x \div voxel_size, q.y \div voxel_size, q.z \div voxel_size>>
    IN  { k \in DOMAIN map :
            /\ k[1] - v[1] \in {0 - 1, 0, 1}
            /\ k[2] - v[2] \in {0 - 1, 0, 1}
            /\ k[3] - v[3] \in {0 - 1, 0, 1} }

BlockPoints(q) == UNION { { map[k][i] : i \in 1..Len(map[k]) } : k \in Block(q) }

C5_ClosestInBlock ==
    op = "get_closest_neighbor" =>
        LET q == query[1]
        IN  /\ ~result.panicked
            /\ (result.value = None) <=> (Block(q) = {})
            /\ result.value # None =>
                  LET r == result.value[1]
                  IN  /\ r.point \in BlockPoints(q)
                      /\ r.distance2 = Dist2(r.point, q)
                      /\ \A p \in BlockPoints(q) : Dist2(p, q) >= r.distance2

C5_MapUnchanged ==
    op' = "get_closest_neighbor" =>
        /\ map' = map
        /\ last_batch_points' = last_batch_points

C5_NearestNeighbor == []C5_ClosestInBlock /\ [][C5_MapUnchanged]_vars

(* a query answered with a point of another voxel than the query's, while the
   block also holds points further away *)
C5_Witness ==
    /\ op = "get_closest_neighbor"
    /\ result.value # None
    /\ point_to_voxel(result.value[1].point, voxel_size) # point_to_voxel(query[1], voxel_size)
    /\ \E p \in BlockPoints(query[1]) : Dist2(p, query[1]) > result.value[1].distance2

(* a query without an answer although the map holds points *)
C5_WitnessNone ==
    /\ op = "get_closest_neighbor"
    /\ result.value = None
    /\ DOMAIN map # {}

(* C6: when some consecutive pair of pose samples is out of time order, or
   rotated or translated by more than the limits, deskew_scan leaves every
   point of the batch as it was. *)
InvalidHistory ==
    \E i \in 1..(Len(poses) - 1) :
        \/ poses[i + 1].time <= poses[i].time
        \/ angle_to(poses[i].pose.rotation, poses[i + 1].pose.rotation) > max_angle_between_poses
        \/ Dist2(poses[i].pose.translation, poses[i + 1].pose.translation)
              > max_distance_between_poses * max_distance_between_poses

DeskewStep == dpc = "idle" /\ dpc' = "done"

C6_InvalidHistoryAborts == [][(DeskewStep /\ InvalidHistory) => points' = points]_vars

(* deskewing has run on two points captured at different times with a history
   whose two samples are out of time order and differ in translation *)
C6_Witness ==
    /\ dpc = "done"
    /\ Len(poses) = 2
    /\ poses[2].time <= poses[1].time
    /\ poses[1].pose # poses[2].pose
    /\ Len(points) = 2
    /\ points[1].global_timestamp # points[2].global_timestamp

C8_NaPointsNeverFails ==
    op = "get_na_points" =>
        /\ ~result.panicked
        /\ DOMAIN result.value = { [x |-> p.x, y |-> p.y, z |-> p.z] : p \in StoredPoints(map) }

(* C9: after update(points, pose), no point accepted by that update at squared
   distance >= max_distance^2 from the pose's translation remains in the map. *)
C9_NoAcceptedPointOutOfRange ==
    AfterUpdate =>
        \A i \in 1..Len(last_batch_points) :
            OutOfRange(last_batch_points[i]) => last_batch_points[i] \notin StoredPoints(map)

(* C9 as amended: insertion runs before distance eviction, so a point that the
   update accepted as the first point of a cell that was not in the map, and
   that is at squared distance >= max_distance^2 from the pose's translation,
   does not remain in the map. *)
VoxelOf(p) == <<p.x \div voxel_size, p.y \div voxel_size, p.z \div voxel_size>>

C9_NewCellStep ==
    op' = "update_with_pose" =>
        \A i \in 1..Len(last_batch_points') :
            LET p == last_batch_points'[i]
                o == current_origin'[1]
            IN  ( /\ Dist2(p, o) >= max_distance * max_distance
                  /\ VoxelOf(p) \notin DOMAIN map
                  /\ \A j \in 1..(i - 1) : VoxelOf(last_batch_points'[j]) # VoxelOf(p) )
                => p \notin StoredPoints(map')

C9_NewCellOutOfRangePruned == [][C9_NewCellStep]_vars

(* an update has accepted a point out of range, and it is gone from the map *)
C9_Witness ==
    /\ AfterUpdate
    /\ \E i \in 1..Len(last_batch_points) :
          /\ OutOfRange(last_batch_points[i])
          /\ last_batch_points[i] \notin StoredPoints(map)

(* C10: every key of the map has a non-empty cell, and is_empty() is true
   exactly when the point count is 0. *)
C10_NoEmptyCell ==
    /\ \A k \in DOMAIN map : Len(map[k]) >= 1
    /\ is_empty(map) <=> (map_len(map) = 0)

(* an update that accepted points and left the map without any cell *)
C10_Witness ==
    /\ AfterUpdate
    /\ last_batch_points # <<>>
    /\ is_empty(map)

====
